---- MODULE Spec2Model ----
(***************************************************************************)
(* The SBF schedule editor (src/script.js, class ScheduleApp) as a state   *)
(* machine: one action per event handler, the page life cycle (constructor,*)
(* init, reload) and the browser's localStorage.                           *)
(*                                                                         *)
(* Numbers.  JavaScript numbers that the handlers compute with are         *)
(* integers here (minutes, hours) or NaN; a JSON round trip turns NaN into *)
(* null.  NaN and Null are two reserved values outside every range the     *)
(* model computes.  Pixel lengths are counted in 1/PxDen pixel, so that    *)
(* every card offset and every halfway point of the snap grid is a whole   *)
(* number; the arithmetic is exact where the code's is floating point.     *)
(*                                                                         *)
(* Time strings.  "HH:MM" is the record [h, m] of the two numbers that     *)
(* `split(':').map(Number)` reads from it; formatTime builds the record    *)
(* from a minute count the way the code builds the string.                 *)
(***************************************************************************)
EXTENDS Integers, Sequences, FiniteSets, TLC

VARIABLES
    view,        \* the URL's view parameter: "public" or "edit"
    pc,          \* "init": constructed, init() not finished; "ready": init() done
    isReadOnly,  \* this.isReadOnly
    bound,       \* bindEvents has attached the button and form handlers
    state,       \* this.state (a record; a loaded file may lack fields)
    CONFIG,      \* this.CONFIG
    dragState,   \* this.dragState
    storage,     \* localStorage[CONFIG.storageKey]: <<>> or <<blob>>
    dom,         \* the rendered stage columns and act cards
    shown,       \* the modals that are not hidden
    actIdField,  \* value of the hidden input #act-id
    pendingRead, \* the number of FileReaders still reading a picked file
    now,         \* the last value Date.now() returned
    events,      \* the number of events so far
    last,        \* the handler that ran last, with what it saw
    dragging,    \* the browser is in a drag that began on an act card
    memberForm,  \* the members modal: the listed ids and the field #member-id
    download     \* the project file Save Project wrote last: <<>> or <<json>>

vars == <<view, pc, isReadOnly, bound, state, CONFIG, dragState, storage, dom,
          shown, actIdField, pendingRead, now, events, last, dragging,
          memberForm, download>>

----------------------------------------------------------------------------
(* Bounds of the model *)

\* The number of events (init, reload, handler calls, completed file reads) of
\* a run
MaxEvents == 5

----------------------------------------------------------------------------
(* JavaScript values and arithmetic *)

NaN == -1000001
Null == -1000002

\* ToNumber: null converts to 0
Num(x) == IF x = Null THEN 0 ELSE x

Add(a, b) == IF Num(a) = NaN \/ Num(b) = NaN THEN NaN ELSE Num(a) + Num(b)
Sub(a, b) == IF Num(a) = NaN \/ Num(b) = NaN THEN NaN ELSE Num(a) - Num(b)
Mul(a, b) == IF Num(a) = NaN \/ Num(b) = NaN THEN NaN ELSE Num(a) * Num(b)

\* a >= b: false as soon as one side is NaN
GreaterEq(a, b) == Num(a) # NaN /\ Num(b) # NaN /\ Num(a) >= Num(b)

MathMax(a, b) ==
    IF Num(a) = NaN \/ Num(b) = NaN THEN NaN
    ELSE IF Num(a) >= Num(b) THEN Num(a) ELSE Num(b)

MathMin(a, b) ==
    IF Num(a) = NaN \/ Num(b) = NaN THEN NaN
    ELSE IF Num(a) <= Num(b) THEN Num(a) ELSE Num(b)

\* Math.floor(a / n) for an integer a and n > 0
MathFloorDiv(a, n) == IF a = NaN THEN NaN ELSE a \div n

\* a % n: the remainder has the sign of the dividend
Rem(a, n) ==
    IF a = NaN THEN NaN
    ELSE IF a >= 0 THEN a % n ELSE 0 - ((0 - a) % n)

\* Math.round(p / q) for integers p and q > 0: floor(p/q + 1/2)
MathRound(p, q) == (2 * p + q) \div (2 * q)

\* JSON.parse(JSON.stringify(x)) of a number: NaN is written as null
JsonNumber(x) == IF x = NaN THEN Null ELSE x

----------------------------------------------------------------------------
(* Time strings *)

Time(hh, mm) == [h |-> hh, m |-> mm]

\* const [h, m] = t.split(':').map(Number); h * 60 + m
TotalMin(t) == Add(Mul(t.h, 60), t.m)

\* formatTime without the wrap of the hour
formatTimeNoWrap(totalMin) ==
    Time(MathFloorDiv(totalMin, 60), Rem(totalMin, 60))

formatTime(totalMin) ==
    LET h0 == MathFloorDiv(totalMin, 60)
        m  == Rem(totalMin, 60)
        h  == IF GreaterEq(h0, 24) THEN Rem(h0, 24) ELSE h0
    IN  Time(h, m)

\* String(n) of an integer n >= 0: its decimal digits
RECURSIVE DecimalString(_)
DecimalString(n) ==
    LET digit == <<"0", "1", "2", "3", "4", "5", "6", "7", "8", "9">>[(n % 10) + 1]
    IN  IF n < 10 THEN <<digit>> ELSE DecimalString(n \div 10) \o <<digit>>

\* s.padStart(2, '0')
padStart2(s) == IF Len(s) < 2 THEN <<"0">> \o s ELSE s

\* The string formatTime returns, character by character:
\* `${String(h).padStart(2, '0')}:${String(m).padStart(2, '0')}`
formatTimeString(totalMin) ==
    LET t == formatTime(totalMin)
    IN  padStart2(DecimalString(t.h)) \o <<":">> \o padStart2(DecimalString(t.m))

\* durationMin of handleDrop and createActCard
DurationMin(act) == Sub(TotalMin(act.endTime), TotalMin(act.startTime))

----------------------------------------------------------------------------
(* The constructor: CONFIG, the default state, dragState *)

DefaultCONFIG ==
    [startHour |-> 9, endHour |-> 22, pixelsPerHour |-> 300, snapMinutes |-> 5]

\* Every pixel length of the model is a count of 1/PxDen pixel
PxDen == 120

\* The default state keeps the two stages, two of the twelve default acts (one
\* whose duration, 38 minutes, is no multiple of the snap; the longest one, 120
\* minutes) and two of the 59 default members, in the order of the source.
\* Names are transliterated; a category is the list of its comma separated,
\* trimmed parts.
DefaultState ==
    [config  |-> [startHour |-> 9, endHour |-> 22],
     stages  |-> << [id |-> "stage-1", name |-> "Day1"],
                    [id |-> "stage-2", name |-> "Day2"] >>,
     acts    |-> << [id |-> "act-1767265793673", stageId |-> "stage-1",
                     name |-> "Showcase", category |-> <<"Exits", "F.F.">>,
                     startTime |-> Time(18, 32), endTime |-> Time(19, 10),
                     color |-> "#8b5cf6"],
                    [id |-> "act-1768392426956", stageId |-> "stage-2",
                     name |-> "Dream Quartet", category |-> <<"Dream Quartet">>,
                     startTime |-> Time(13, 0), endTime |-> Time(15, 0),
                     color |-> "#f73b45"] >>,
     members |-> << [id |-> "mem-1768372678177", name |-> "Fumichan",
                     teams |-> <<"F.F.", "Pioniere">>],
                    [id |-> "mem-1768373837687", name |-> "Funaken",
                     teams |-> <<"Harmonix Junction", "Pioniere">>] >>]

NoDrag == [actId |-> "", offsetY |-> 0]

\* The members modal before it was ever opened: an empty list, an empty field
NoMemberForm == [list |-> {}, id |-> ""]

----------------------------------------------------------------------------
(* Sequences *)

\* Array.prototype.find by id: the index of the first match, 0 when none
FindIndex(seq, id) ==
    IF \E i \in 1..Len(seq) : seq[i].id = id
    THEN CHOOSE i \in 1..Len(seq) :
            seq[i].id = id /\ \A j \in 1..(i - 1) : seq[j].id # id
    ELSE 0

Has(rec, field) == field \in DOMAIN rec

\* { ...a, ...b }
Spread(a, b) ==
    [f \in (DOMAIN a) \cup (DOMAIN b) |-> IF f \in DOMAIN b THEN b[f] ELSE a[f]]

----------------------------------------------------------------------------
(* Persistence *)

\* JSON.parse(JSON.stringify(st)): the only numbers of a state are the two
\* hours of its config
Json(st) ==
    IF Has(st, "config")
    THEN [st EXCEPT !.config = [startHour |-> JsonNumber(st.config.startHour),
                                endHour   |-> JsonNumber(st.config.endHour)]]
    ELSE st

\* saveState: [threw, state, storage] after the call
saveState(ro, st, cfg, sto) ==
    IF ro THEN [threw |-> FALSE, state |-> st, storage |-> sto]
    ELSE IF ~Has(st, "config")
    THEN [threw |-> TRUE, state |-> st, storage |-> sto]
    ELSE LET st2 == [st EXCEPT !.config = [startHour |-> cfg.startHour,
                                           endHour   |-> cfg.endHour]]
         IN  [threw |-> FALSE, state |-> st2, storage |-> <<Json(st2)>>]

\* obj.field: undefined where the object has no such field.  Every sum,
\* product and comparison takes undefined as it takes NaN.
Field(obj, field) == IF Has(obj, field) THEN obj[field] ELSE NaN

\* applyConfig
applyConfig(st, cfg) ==
    IF Has(st, "config")
    THEN [cfg EXCEPT !.startHour = Field(st.config, "startHour"),
                     !.endHour   = Field(st.config, "endHour")]
    ELSE cfg

\* loadState, edit branch: the state after reading the stored blob
loadStateLocal(st, sto) ==
    IF sto = <<>> THEN st
    ELSE LET parsed == sto[1]
             merged == Spread(st, parsed)
             config == IF Has(parsed, "config")
                       THEN Spread(st.config, parsed.config)
                       ELSE st.config
         IN  [merged EXCEPT !.config = config]

\* loadState, public branch: fetched is <<>> (the fetch failed) or <<json>>
loadStatePublic(st, fetched) ==
    IF fetched = <<>> THEN st ELSE Spread(st, fetched[1])

----------------------------------------------------------------------------
(* Rendering *)

NoDom == [cols |-> <<>>, cards |-> <<>>]

\* renderStages: one column per stage; the cards go with the old columns
renderStages(st) ==
    [cols  |-> [i \in 1..Len(st.stages) |-> st.stages[i].id],
     cards |-> <<>>]

ColumnIds(d) == {d.cols[i] : i \in 1..Len(d.cols)}

\* topPx with the offset counted from midnight instead of the window's start
topPxFromMidnight(act, cfg) ==
    LET offsetMin == TotalMin(act.startTime)
    IN  IF offsetMin = NaN THEN NaN
        ELSE (offsetMin * cfg.pixelsPerHour * PxDen) \div 60

\* topPx with one pixel per minute, whatever the density
topPxPerMinute(act, cfg) ==
    LET offsetMin == Sub(TotalMin(act.startTime), Mul(cfg.startHour, 60))
    IN  IF offsetMin = NaN THEN NaN ELSE offsetMin * PxDen

\* topPx of createActCard: (offsetMin / 60) * pixelsPerHour
topPx(act, cfg) ==
    LET offsetMin == Sub(TotalMin(act.startTime), Mul(cfg.startHour, 60))
    IN  IF offsetMin = NaN THEN NaN
        ELSE (offsetMin * cfg.pixelsPerHour * PxDen) \div 60

\* The text of <div class="act-title">${act.name}</div> once innerHTML has
\* parsed it: a name that reads as a tag becomes an element and shows no text
titleText(name) ==
    CASE name = "<TBA>" -> ""
      [] OTHER          -> name

\* A card that is kept at the top edge when its act starts before the window
createActCardClamped(act, cfg) ==
    [id |-> act.id, col |-> act.stageId, name |-> titleText(act.name),
     startTime |-> act.startTime, endTime |-> act.endTime,
     top |-> MathMax(0, topPx(act, cfg))]

createActCard(act, cfg) ==
    [id |-> act.id, col |-> act.stageId, name |-> titleText(act.name),
     startTime |-> act.startTime, endTime |-> act.endTime,
     top |-> topPx(act, cfg)]

RECURSIVE CardsOf(_, _, _)
CardsOf(acts, cols, cfg) ==
    IF acts = <<>> THEN <<>>
    ELSE IF Head(acts).stageId \in cols
         THEN <<createActCard(Head(acts), cfg)>> \o CardsOf(Tail(acts), cols, cfg)
         ELSE CardsOf(Tail(acts), cols, cfg)

\* renderActs: removes every card, then one card per act whose column exists
renderActs(st, cfg, d) == [d EXCEPT !.cards = CardsOf(st.acts, ColumnIds(d), cfg)]

\* renderAll: [threw, dom]; a missing array throws after the old elements
\* have been removed
renderAll(st, cfg, d) ==
    IF ~Has(st, "stages") THEN [threw |-> TRUE, dom |-> NoDom]
    ELSE IF ~Has(st, "acts")
    THEN [threw |-> TRUE, dom |-> renderStages(st)]
    ELSE [threw |-> FALSE, dom |-> renderActs(st, cfg, renderStages(st))]

CardIds(d) == {d.cards[i].id : i \in 1..Len(d.cards)}

----------------------------------------------------------------------------
(* What the user and the environment can supply *)

Px(whole, half) == whole * PxDen + half * (PxDen \div 2)

\* clientY - stageRect.top of a drop: above the column, 12.5 px above it (-2.5
\* minutes: halfway between two snap points), 37 px, 312.5 px (62.5 minutes:
\* halfway again), below the column
DropYs == {Px(-100, 0), Px(-13, 1), Px(37, 0), Px(312, 1), Px(5000, 0)}

\* e.clientY - rect.top of a dragstart: the card is held at its top edge
GrabYs == {Px(0, 0)}

\* The fields of the act form: the values openEditModal proposes for a new act
\* and a pair of times whose end is before its start
ActForms ==
    { [name |-> "New Act", category |-> <<>>, color |-> "#3b82f6",
       startTime |-> Time(12, 0), endTime |-> Time(13, 0)],
      [name |-> "New Act", category |-> <<>>, color |-> "#3b82f6",
       startTime |-> Time(13, 0), endTime |-> Time(12, 0)] }

\* parseInt of the two fields of the settings form (NaN: an empty field)
SettingsForms == { <<22, 23>>, <<9, 14>>, <<23, 22>>, <<9, 25>>, <<NaN, 22>> }

\* Answers to prompt(): nothing (cancelled or left empty), or a name
PromptAnswers == { "", "Hall" }

\* Project files the user can pick, and what ./schedule.json can hold:
\* text that is no JSON, an object without config, an object without stages,
\* and a complete project one of whose acts names a stage that is not there
BadJson == [ok |-> FALSE, json |-> <<>>]

FileNoConfig ==
    [ok |-> TRUE,
     json |-> [stages |-> <<[id |-> "stage-7", name |-> "Hall"]>>, acts |-> <<>>]]

FileNoStages ==
    [ok |-> TRUE,
     json |-> [config |-> [startHour |-> 10, endHour |-> 12], acts |-> <<>>]]

FileOrphan ==
    [ok |-> TRUE,
     json |-> [config  |-> [startHour |-> 10, endHour |-> 12],
               stages  |-> <<[id |-> "stage-7", name |-> "Hall"]>>,
               acts    |-> <<[id |-> "act-7", stageId |-> "stage-8",
                              name |-> "Lost", category |-> <<>>,
                              startTime |-> Time(10, 0), endTime |-> Time(11, 0),
                              color |-> "#ef4444"]>>,
               members |-> <<>>]]

\* What ./schedule.json can also hold: a project whose config names the first
\* hour only
FileHalfConfig ==
    [ok |-> TRUE,
     json |-> [config  |-> [startHour |-> 10],
               stages  |-> <<[id |-> "stage-7", name |-> "Hall"]>>,
               acts    |-> <<>>,
               members |-> <<>>]]

ProjectFiles == {BadJson, FileNoConfig, FileNoStages, FileOrphan}

\* What Date.now() reads when the page opens: a millisecond count that is the
\* number in no id of the default state
ClockStart == 1000

----------------------------------------------------------------------------
(* The page: constructor, init, reload *)

\* last: the handler, the id it worked on, the act it found or the object it
\* parsed (<<>> or <<act>>),
\* the drop position and the start it computed before clamping, the answer to
\* its confirm dialog ("" when it showed none), whether it ended in an
\* exception
Ran(op) ==
    [op |-> op, id |-> "", pre |-> <<>>, relY |-> 0, newStart |-> 0,
     answer |-> "", threw |-> FALSE]

\* confirm(): OK or Cancel
Answer(confirmed) == IF confirmed THEN "yes" ELSE "no"

\* Every event counts towards the bound of the run
Step == events < MaxEvents /\ events' = events + 1

\* A click, a key or a form submit: the browser delivers none of them during
\* a drag
UserIdle == ~dragging /\ UNCHANGED dragging

Init ==
    /\ view \in {"edit", "public"}
    /\ pc = "init"
    /\ isReadOnly = FALSE
    /\ bound = FALSE
    /\ state = DefaultState
    /\ CONFIG = DefaultCONFIG
    /\ dragState = NoDrag
    /\ storage = <<>>
    /\ dom = NoDom
    /\ shown = {}
    /\ actIdField = ""
    /\ pendingRead = 0
    /\ now = ClockStart
    /\ events = 0
    /\ last = Ran("constructor")
    /\ dragging = FALSE
    /\ memberForm = NoMemberForm
    /\ download = <<>>

\* bindEvents without its read-only guard
bindEventsAlways(ro) == TRUE

\* bindEvents: the buttons and forms get their handlers unless read-only
bindEvents(ro) == ~ro

\* init(): loadState, applyConfig, renderAll, checkReadOnly, bindEvents.
\* fetched is what fetch('./schedule.json') gives in public view.
InitPage(fetched) ==
    /\ Step
    /\ pc = "init"
    /\ LET ro  == (view = "public")
           st  == IF ro THEN loadStatePublic(state, fetched)
                  ELSE loadStateLocal(state, storage)
           cfg == applyConfig(st, CONFIG)
           r   == renderAll(st, cfg, dom)
       IN  /\ isReadOnly' = ro
           /\ state' = st
           /\ CONFIG' = cfg
           /\ dom' = r.dom
           /\ bound' = IF r.threw THEN FALSE ELSE bindEvents(ro)
           /\ last' = [Ran("init") EXCEPT !.threw = r.threw]
    /\ pc' = "ready"
    /\ UNCHANGED <<view, dragState, storage, shown, actIdField, pendingRead, now>>
    /\ UNCHANGED <<dragging, memberForm, download>>

init ==
    \E fetched \in {<<>>} \cup {<<f.json>> : f \in {FileOrphan, FileNoConfig, FileHalfConfig}} :
        /\ (view = "edit" => fetched = <<>>)
        /\ InitPage(fetched)

\* The user reloads the page or opens it under the other URL: the constructor
\* runs again; localStorage and the clock are all that survive
Reload ==
    /\ Step
    /\ view' \in {"edit", "public"}
    /\ pc' = "init"
    /\ isReadOnly' = FALSE
    /\ bound' = FALSE
    /\ state' = DefaultState
    /\ CONFIG' = DefaultCONFIG
    /\ dragState' = NoDrag
    /\ dom' = NoDom
    /\ shown' = {}
    /\ actIdField' = ""
    /\ pendingRead' = 0
    /\ last' = Ran("constructor")
    /\ dragging' = FALSE
    /\ memberForm' = NoMemberForm
    /\ UNCHANGED <<storage, now, download>>

----------------------------------------------------------------------------
(* Drag and drop *)

\* A card's dragstart listener exists when the card was rendered editable
handleDragStart(cardId, grabY) ==
    /\ Step
    /\ pc = "ready" /\ ~isReadOnly
    /\ cardId \in CardIds(dom)
    /\ ~dragging /\ dragging' = TRUE
    /\ UNCHANGED <<memberForm, download>>
    /\ dragState' = [actId |-> cardId, offsetY |-> grabY]
    /\ last' = [Ran("handleDragStart") EXCEPT !.id = cardId]
    /\ UNCHANGED <<view, pc, isReadOnly, bound, state, CONFIG, storage, dom,
                   shown, actIdField, pendingRead, now>>

\* The drop position rounded to the minute, the snap grid forgotten
snappedMinutesOffGrid(relativeY, cfg) ==
    MathRound(60 * relativeY, PxDen * cfg.pixelsPerHour)

\* Rounding half away from zero: -2.5 minutes go to -5
snappedMinutesHalfAway(relativeY, cfg) ==
    LET p == 60 * relativeY
        q == PxDen * cfg.pixelsPerHour * cfg.snapMinutes
    IN  IF p >= 0 THEN MathRound(p, q) * cfg.snapMinutes
        ELSE (0 - MathRound(0 - p, q)) * cfg.snapMinutes

\* minutesFromStart = (relativeY / pixelsPerHour) * 60, rounded to the snap grid
snappedMinutes(relativeY, cfg) ==
    MathRound(60 * relativeY, PxDen * cfg.pixelsPerHour * cfg.snapMinutes)
        * cfg.snapMinutes

newStartTotalMin(relativeY, cfg) ==
    Add(Mul(cfg.startHour, 60), snappedMinutes(relativeY, cfg))

\* The two bounds applied in the other order: the upper bound wins
clampedStartMinUpperLast(newStart, durationMin, cfg) ==
    MathMin(MathMax(Mul(cfg.startHour, 60), newStart),
            Sub(Mul(cfg.endHour, 60), durationMin))

\* The upper bound forgotten
clampedStartMinNoUpper(newStart, durationMin, cfg) ==
    MathMax(Mul(cfg.startHour, 60), newStart)

\* Math.max(globalStartMin, Math.min(newStartTotalMin, globalEndMin - durationMin))
clampedStartMin(newStart, durationMin, cfg) ==
    MathMax(Mul(cfg.startHour, 60),
            MathMin(newStart, Sub(Mul(cfg.endHour, 60), durationMin)))

\* A drop that also gives the act the first colour of the palette
droppedActRecoloured(act, stageId, relativeY, cfg) ==
    LET durationMin == DurationMin(act)
        start == clampedStartMin(newStartTotalMin(relativeY, cfg), durationMin, cfg)
        end   == Add(start, durationMin)
    IN  [act EXCEPT !.stageId = stageId,
                    !.startTime = formatTime(start),
                    !.endTime = formatTime(end),
                    !.color = "#ef4444"]

\* The act as handleDrop leaves it
droppedAct(act, stageId, relativeY, cfg) ==
    LET durationMin == DurationMin(act)
        start == clampedStartMin(newStartTotalMin(relativeY, cfg), durationMin, cfg)
        end   == Add(start, durationMin)
    IN  [act EXCEPT !.stageId = stageId,
                    !.startTime = formatTime(start),
                    !.endTime = formatTime(end)]

\* A drop on the column of stageId with the pointer at pointerY
handleDrop(stageId, pointerY) ==
    /\ Step
    /\ pc = "ready" /\ ~isReadOnly
    /\ stageId \in ColumnIds(dom)
    /\ dragging' = FALSE
    /\ UNCHANGED <<memberForm, download>>
    /\ LET relativeY == pointerY - dragState.offsetY
           i == IF Has(state, "acts") THEN FindIndex(state.acts, dragState.actId)
                ELSE 0
           ran == [Ran("handleDrop") EXCEPT !.id = dragState.actId]
       IN  IF dragState.actId = ""
           THEN /\ last' = ran
                /\ UNCHANGED <<state, storage, dom, dragState>>
           ELSE IF ~Has(state, "acts")
           THEN /\ last' = [ran EXCEPT !.threw = TRUE]
                /\ UNCHANGED <<state, storage, dom, dragState>>
           ELSE IF i = 0
           THEN /\ last' = ran
                /\ UNCHANGED <<state, storage, dom, dragState>>
           ELSE LET act == droppedAct(state.acts[i], stageId, relativeY, CONFIG)
                    st  == [state EXCEPT !.acts[i] = act]
                    sv  == saveState(isReadOnly, st, CONFIG, storage)
                IN  /\ state' = sv.state
                    /\ storage' = sv.storage
                    /\ dom' = IF sv.threw THEN dom
                              ELSE renderActs(sv.state, CONFIG, dom)
                    /\ dragState' = IF sv.threw THEN dragState
                                    ELSE [dragState EXCEPT !.actId = ""]
                    /\ last' = [ran EXCEPT !.pre = <<state.acts[i]>>,
                                           !.relY = relativeY,
                                           !.newStart = newStartTotalMin(relativeY, CONFIG),
                                           !.threw = sv.threw]
    /\ UNCHANGED <<view, pc, isReadOnly, bound, CONFIG, shown, actIdField,
                   pendingRead, now>>

\* The drag ends without a drop on a stage column: Escape, or a release over
\* anything else.  No listener of the page hears it.
dragEnd ==
    /\ Step
    /\ dragging /\ dragging' = FALSE
    /\ last' = Ran("dragend")
    /\ UNCHANGED <<view, pc, isReadOnly, bound, state, CONFIG, dragState,
                   storage, dom, shown, actIdField, pendingRead, now,
                   memberForm, download>>

----------------------------------------------------------------------------
(* The act form *)

\* The Add Act button (actId = "") or a click on a card
openEditModal(actId) ==
    /\ Step
    /\ UserIdle /\ UNCHANGED <<memberForm, download>>
    /\ pc = "ready"
    /\ \/ actId = "" /\ bound
       \/ actId \in CardIds(dom) /\ ~isReadOnly
    /\ shown' = shown \cup {"edit"}
    /\ actIdField' = actId
    /\ last' = [Ran("openEditModal") EXCEPT !.id = actId]
    /\ UNCHANGED <<view, pc, isReadOnly, bound, state, CONFIG, dragState,
                   storage, dom, pendingRead, now>>

\* The cancel buttons
closeModal(modalName) ==
    /\ Step
    /\ UserIdle /\ UNCHANGED <<memberForm, download>>
    /\ pc = "ready" /\ bound
    /\ modalName \in shown
    /\ shown' = shown \ {modalName}
    /\ last' = Ran("closeModal")
    /\ UNCHANGED <<view, pc, isReadOnly, bound, state, CONFIG, dragState,
                   storage, dom, actIdField, pendingRead, now>>

\* Date.now(): the same millisecond as the last reading, or a later one
Clock == {now, now + 1}

\* The new act of handleActSubmit
newAct(t, stages, data) ==
    [id |-> "act-" \o ToString(t), stageId |-> stages[1].id,
     name |-> data.name, category |-> data.category,
     startTime |-> data.startTime, endTime |-> data.endTime,
     color |-> data.color]

\* Object.assign(act, data)
assignAct(act, data) ==
    [act EXCEPT !.name = data.name, !.category = data.category,
                !.startTime = data.startTime, !.endTime = data.endTime,
                !.color = data.color]

handleActSubmit(data, t) ==
    /\ Step
    /\ UserIdle /\ UNCHANGED <<memberForm, download>>
    /\ pc = "ready" /\ bound
    /\ "edit" \in shown
    /\ LET id  == actIdField
           ran == [Ran("handleActSubmit") EXCEPT !.id = id]
           throws == \/ ~Has(state, "acts")
                     \/ id = "" /\ (~Has(state, "stages") \/ state.stages = <<>>)
       IN  IF throws
           THEN /\ last' = [ran EXCEPT !.threw = TRUE]
                /\ UNCHANGED <<state, storage, dom, shown, now>>
           ELSE LET i  == FindIndex(state.acts, id)
                    st == IF id # ""
                          THEN IF i = 0 THEN state
                               ELSE [state EXCEPT
                                        !.acts[i] = assignAct(state.acts[i], data)]
                          ELSE [state EXCEPT
                                   !.acts = Append(@, newAct(t, state.stages, data))]
                    sv == saveState(isReadOnly, st, CONFIG, storage)
                IN  /\ now' = IF id = "" THEN t ELSE now
                    /\ state' = sv.state
                    /\ storage' = sv.storage
                    /\ dom' = IF sv.threw THEN dom
                              ELSE renderActs(sv.state, CONFIG, dom)
                    /\ shown' = IF sv.threw THEN shown ELSE shown \ {"edit"}
                    /\ last' = [ran EXCEPT
                                   !.pre = IF i = 0 THEN <<>> ELSE <<state.acts[i]>>,
                                   !.threw = sv.threw]
    /\ UNCHANGED <<view, pc, isReadOnly, bound, CONFIG, dragState, actIdField,
                   pendingRead>>

\* The delete goes ahead without the dialog
deleteConfirmedUnasked(id, confirmed) == id # ""

\* if (id && confirm('Delete?')), if (id && confirm('Delete member?'))
deleteConfirmed(id, confirmed) == id # "" /\ confirmed

\* filter(a => a.id !== id)
RECURSIVE WithoutId(_, _)
WithoutId(seq, id) ==
    IF seq = <<>> THEN <<>>
    ELSE IF Head(seq).id = id THEN WithoutId(Tail(seq), id)
         ELSE <<Head(seq)>> \o WithoutId(Tail(seq), id)

handleActDelete(confirmed) ==
    /\ Step
    /\ UserIdle /\ UNCHANGED <<memberForm, download>>
    /\ pc = "ready" /\ bound
    /\ "edit" \in shown
    /\ LET id  == actIdField
           ran == [Ran("handleActDelete") EXCEPT
                      !.id = id,
                      !.answer = IF id = "" THEN "" ELSE Answer(confirmed)]
       IN  IF ~deleteConfirmed(id, confirmed)
           THEN /\ last' = ran
                /\ UNCHANGED <<state, storage, dom, shown>>
           ELSE IF ~Has(state, "acts")
           THEN /\ last' = [ran EXCEPT !.threw = TRUE]
                /\ UNCHANGED <<state, storage, dom, shown>>
           ELSE LET st == [state EXCEPT !.acts = WithoutId(@, id)]
                    sv == saveState(isReadOnly, st, CONFIG, storage)
                IN  /\ state' = sv.state
                    /\ storage' = sv.storage
                    /\ dom' = IF sv.threw THEN dom
                              ELSE renderActs(sv.state, CONFIG, dom)
                    /\ shown' = IF sv.threw THEN shown ELSE shown \ {"edit"}
                    /\ last' = [ran EXCEPT !.threw = sv.threw]
    /\ UNCHANGED <<view, pc, isReadOnly, bound, CONFIG, dragState, actIdField,
                   pendingRead, now>>

----------------------------------------------------------------------------
(* Settings *)

openSettings ==
    /\ Step
    /\ UserIdle /\ UNCHANGED <<memberForm, download>>
    /\ pc = "ready" /\ bound
    /\ shown' = shown \cup {"settings"}
    /\ last' = Ran("openSettings")
    /\ UNCHANGED <<view, pc, isReadOnly, bound, state, CONFIG, dragState,
                   storage, dom, actIdField, pendingRead, now>>

\* if (start >= end) { alert(...); return; }
settingsRejected(start, end) == GreaterEq(start, end)

handleSettingsSubmit(start, end) ==
    /\ Step
    /\ UserIdle /\ UNCHANGED <<memberForm, download>>
    /\ pc = "ready" /\ bound
    /\ "settings" \in shown
    /\ IF settingsRejected(start, end)
       THEN /\ last' = Ran("handleSettingsSubmit")
            /\ UNCHANGED <<state, CONFIG, storage, dom, shown>>
       ELSE LET cfg == [CONFIG EXCEPT !.startHour = start, !.endHour = end]
                sv  == saveState(isReadOnly, state, cfg, storage)
                r   == renderAll(sv.state, cfg, dom)
                threw == sv.threw \/ r.threw
            IN  /\ CONFIG' = cfg
                /\ state' = sv.state
                /\ storage' = sv.storage
                /\ dom' = IF sv.threw THEN dom ELSE r.dom
                /\ shown' = IF threw THEN shown ELSE shown \ {"settings"}
                /\ last' = [Ran("handleSettingsSubmit") EXCEPT !.threw = threw,
                                                               !.id = "applied"]
    /\ UNCHANGED <<view, pc, isReadOnly, bound, dragState, actIdField,
                   pendingRead, now>>

----------------------------------------------------------------------------
(* Stages *)

\* renderStages followed by renderActs, as addStage and renameStage call them
renderStagesAndActs(st, cfg) ==
    IF ~Has(st, "acts") THEN [threw |-> TRUE, dom |-> renderStages(st)]
    ELSE [threw |-> FALSE, dom |-> renderActs(st, cfg, renderStages(st))]

addStage(name, t) ==
    /\ Step
    /\ UserIdle /\ UNCHANGED <<memberForm, download>>
    /\ pc = "ready" /\ bound
    /\ IF ~Has(state, "stages")
       THEN /\ last' = [Ran("addStage") EXCEPT !.threw = TRUE]
            /\ UNCHANGED <<state, storage, dom, now>>
       ELSE IF name = ""
       THEN /\ last' = Ran("addStage")
            /\ UNCHANGED <<state, storage, dom, now>>
       ELSE LET stage == [id |-> "stage-" \o ToString(t), name |-> name]
                st == [state EXCEPT !.stages = Append(@, stage)]
                sv == saveState(isReadOnly, st, CONFIG, storage)
                r  == renderStagesAndActs(sv.state, CONFIG)
            IN  /\ now' = t
                /\ state' = sv.state
                /\ storage' = sv.storage
                /\ dom' = IF sv.threw THEN dom ELSE r.dom
                /\ last' = [Ran("addStage") EXCEPT !.id = stage.id,
                                                   !.threw = sv.threw \/ r.threw]
    /\ UNCHANGED <<view, pc, isReadOnly, bound, CONFIG, dragState, shown,
                   actIdField, pendingRead>>

\* A click on the header of the column of stageId
renameStage(stageId, newName) ==
    /\ Step
    /\ UserIdle /\ UNCHANGED <<memberForm, download>>
    /\ pc = "ready" /\ ~isReadOnly
    /\ stageId \in ColumnIds(dom)
    /\ LET ran == [Ran("renameStage") EXCEPT !.id = stageId]
           i == IF Has(state, "stages") THEN FindIndex(state.stages, stageId) ELSE 0
       IN  IF ~Has(state, "stages")
           THEN /\ last' = [ran EXCEPT !.threw = TRUE]
                /\ UNCHANGED <<state, storage, dom>>
           ELSE IF i = 0 \/ newName = ""
           THEN /\ last' = ran
                /\ UNCHANGED <<state, storage, dom>>
           ELSE LET st == [state EXCEPT !.stages[i].name = newName]
                    sv == saveState(isReadOnly, st, CONFIG, storage)
                    r  == renderStagesAndActs(sv.state, CONFIG)
                IN  /\ state' = sv.state
                    /\ storage' = sv.storage
                    /\ dom' = IF sv.threw THEN dom ELSE r.dom
                    /\ last' = [ran EXCEPT !.threw = sv.threw \/ r.threw]
    /\ UNCHANGED <<view, pc, isReadOnly, bound, CONFIG, dragState, shown,
                   actIdField, pendingRead, now>>

----------------------------------------------------------------------------
(* The individual export's member list *)

\* The rank of a member's name under localeCompare (the names are kana in the
\* source: "ふなけん" sorts before "ふみちゃん")
CollationRank(name) ==
    CASE name = "Funaken"  -> 1
      [] name = "Fumichan" -> 2
      [] OTHER             -> 3

\* Array.prototype.sort((a, b) => a.name.localeCompare(b.name)): stable
RECURSIVE InsertMember(_, _)
InsertMember(m, sorted) ==
    IF sorted = <<>> THEN <<m>>
    ELSE IF CollationRank(m.name) < CollationRank(Head(sorted).name)
         THEN <<m>> \o sorted
         ELSE <<Head(sorted)>> \o InsertMember(m, Tail(sorted))

RECURSIVE SortMembers(_)
SortMembers(members) ==
    IF members = <<>> THEN <<>>
    ELSE InsertMember(members[Len(members)],
                      SortMembers(SubSeq(members, 1, Len(members) - 1)))

\* state.members after openIndividualExport (sort works in place)
membersAfterExportOpen(members) == SortMembers(members)

openIndividualExport ==
    /\ Step
    /\ UserIdle /\ UNCHANGED <<memberForm, download>>
    /\ pc = "ready" /\ bound
    /\ IF ~Has(state, "members")
       THEN /\ last' = [Ran("openIndividualExport") EXCEPT !.threw = TRUE]
            /\ UNCHANGED <<state, shown>>
       ELSE /\ state' = [state EXCEPT !.members = membersAfterExportOpen(@)]
            /\ UNCHANGED shown
            /\ last' = Ran("openIndividualExport")
    /\ UNCHANGED <<view, pc, isReadOnly, bound, CONFIG, dragState, storage,
                   dom, actIdField, pendingRead, now>>

----------------------------------------------------------------------------
(* Members *)

\* renderMembersList: one Edit button per member
renderMembersList(st) == {st.members[i].id : i \in 1..Len(st.members)}

\* openMembersModal: renderMembersList, clearMemberForm, show the modal
openMembersModal ==
    /\ Step
    /\ UserIdle /\ UNCHANGED download
    /\ pc = "ready" /\ bound
    /\ IF ~Has(state, "members")
       THEN /\ memberForm' = [memberForm EXCEPT !.list = {}]
            /\ UNCHANGED shown
            /\ last' = [Ran("openMembersModal") EXCEPT !.threw = TRUE]
       ELSE /\ memberForm' = [list |-> renderMembersList(state), id |-> ""]
            /\ shown' = shown \cup {"members"}
            /\ last' = Ran("openMembersModal")
    /\ UNCHANGED <<view, pc, isReadOnly, bound, state, CONFIG, dragState,
                   storage, dom, actIdField, pendingRead, now>>

\* An Edit button of the list
editMember(id) ==
    /\ Step
    /\ UserIdle /\ UNCHANGED download
    /\ pc = "ready" /\ "members" \in shown
    /\ id \in memberForm.list
    /\ LET ran == [Ran("editMember") EXCEPT !.id = id]
       IN  IF ~Has(state, "members")
           THEN /\ last' = [ran EXCEPT !.threw = TRUE]
                /\ UNCHANGED memberForm
           ELSE IF FindIndex(state.members, id) = 0
           THEN /\ last' = ran
                /\ UNCHANGED memberForm
           ELSE /\ last' = ran
                /\ memberForm' = [memberForm EXCEPT !.id = id]
    /\ UNCHANGED <<view, pc, isReadOnly, bound, state, CONFIG, dragState,
                   storage, dom, shown, actIdField, pendingRead, now>>

\* The Delete button of the member form (displayed once editMember filled it)
handleMemberDelete(confirmed) ==
    /\ Step
    /\ UserIdle /\ UNCHANGED download
    /\ pc = "ready" /\ bound
    /\ "members" \in shown /\ memberForm.id # ""
    /\ LET id  == memberForm.id
           ran == [Ran("handleMemberDelete") EXCEPT
                      !.id = id,
                      !.answer = IF id = "" THEN "" ELSE Answer(confirmed)]
       IN  IF ~deleteConfirmed(id, confirmed)
           THEN /\ last' = ran
                /\ UNCHANGED <<state, storage, memberForm>>
           ELSE IF ~Has(state, "members")
           THEN /\ last' = [ran EXCEPT !.threw = TRUE]
                /\ UNCHANGED <<state, storage, memberForm>>
           ELSE LET st == [state EXCEPT !.members = WithoutId(@, id)]
                    sv == saveState(isReadOnly, st, CONFIG, storage)
                IN  /\ state' = sv.state
                    /\ storage' = sv.storage
                    /\ memberForm' =
                          IF sv.threw THEN memberForm
                          ELSE [list |-> renderMembersList(sv.state), id |-> ""]
                    /\ last' = [ran EXCEPT !.threw = sv.threw]
    /\ UNCHANGED <<view, pc, isReadOnly, bound, CONFIG, dragState, dom, shown,
                   actIdField, pendingRead, now>>

----------------------------------------------------------------------------
(* Saving and loading a project file *)

\* Save Project: JSON.stringify(this.state) goes into a downloaded file
handleSaveProject ==
    /\ Step
    /\ UserIdle /\ UNCHANGED memberForm
    /\ pc = "ready" /\ bound
    /\ download' = <<Json(state)>>
    /\ last' = Ran("handleSaveProject")
    /\ UNCHANGED <<view, pc, isReadOnly, bound, state, CONFIG, dragState,
                   storage, dom, shown, actIdField, pendingRead, now>>

\* The files the user can pick: the prepared ones and the one saved last
SavedFiles == {[ok |-> TRUE, json |-> download[i]] : i \in 1..Len(download)}

PickableFiles == ProjectFiles \cup SavedFiles

\* The change handler of the file input: the read starts once the user has
\* confirmed; its result arrives in a later task
handleLoadProjectFile(confirmed) ==
    /\ Step
    /\ UserIdle /\ UNCHANGED <<memberForm, download>>
    /\ pc = "ready" /\ bound
    /\ IF confirmed
       THEN pendingRead' = pendingRead + 1
       ELSE UNCHANGED pendingRead
    /\ last' = [Ran("handleLoadProjectFile") EXCEPT
                   !.id = IF confirmed THEN "confirmed" ELSE "declined",
                   !.answer = Answer(confirmed)]
    /\ UNCHANGED <<view, pc, isReadOnly, bound, state, CONFIG, dragState,
                   storage, dom, shown, actIdField, now>>

\* A FileReader whose onload fires again and again
readsLeftForever(n) == n

\* The reads still in flight once one of them has fired its onload
readsLeft(n) == n - 1

\* reader.onload of a read in flight; file is the file that was picked (nothing
\* looks at it before this)
readerOnload(file) ==
    /\ Step
    /\ UNCHANGED <<dragging, memberForm, download>>
    /\ pc \in {"ready", "unloading"}
    /\ pendingRead > 0
    /\ pendingRead' = readsLeft(pendingRead)
    /\ LET ran == Ran("readerOnload")
       IN  IF ~file.ok
           THEN /\ last' = [ran EXCEPT !.threw = TRUE]
                /\ UNCHANGED <<state, CONFIG, storage, dom>>
           ELSE LET sv  == saveState(isReadOnly, file.json, CONFIG, storage)
                    cfg == applyConfig(sv.state, CONFIG)
                    r   == renderAll(sv.state, cfg, dom)
                IN  /\ state' = sv.state
                    /\ storage' = sv.storage
                    /\ CONFIG' = IF sv.threw THEN CONFIG ELSE cfg
                    /\ dom' = IF sv.threw THEN dom ELSE r.dom
                    /\ last' = [ran EXCEPT !.threw = sv.threw \/ r.threw,
                                           !.id = "parsed",
                                           !.pre = <<file.json>>]
    /\ UNCHANGED <<view, pc, isReadOnly, bound, dragState, shown, actIdField, now>>

----------------------------------------------------------------------------
(* Reset *)

\* localStorage.removeItem, then location.reload(): the reload starts a
\* navigation, and the page lives on until its document is unloaded
handleReset(confirmed) ==
    /\ Step
    /\ UserIdle /\ UNCHANGED <<memberForm, download>>
    /\ pc = "ready" /\ bound
    /\ IF confirmed
       THEN /\ storage' = <<>>
            /\ pc' = "unloading"
            /\ last' = [Ran("handleReset") EXCEPT !.answer = "yes"]
       ELSE /\ last' = [Ran("handleReset") EXCEPT !.answer = "no"]
            /\ UNCHANGED <<storage, pc>>
    /\ UNCHANGED <<view, isReadOnly, bound, state, CONFIG, dragState, dom,
                   shown, actIdField, pendingRead, now>>

\* The navigation of location.reload() commits: the document is unloaded and
\* the constructor runs again under the same URL
unload ==
    /\ Step
    /\ pc = "unloading"
    /\ pc' = "init"
    /\ isReadOnly' = FALSE
    /\ bound' = FALSE
    /\ state' = DefaultState
    /\ CONFIG' = DefaultCONFIG
    /\ dragState' = NoDrag
    /\ dom' = NoDom
    /\ shown' = {}
    /\ actIdField' = ""
    /\ pendingRead' = 0
    /\ last' = [Ran("constructor") EXCEPT !.id = "reset", !.answer = "yes"]
    /\ dragging' = FALSE
    /\ memberForm' = NoMemberForm
    /\ UNCHANGED <<view, storage, now, download>>

----------------------------------------------------------------------------
(* The specification *)

Next ==
    \/ init
    \/ Reload
    \/ \E id \in CardIds(dom), y \in GrabYs : handleDragStart(id, y)
    \/ \E s \in ColumnIds(dom), y \in DropYs : handleDrop(s, y)
    \/ dragEnd
    \/ \E id \in CardIds(dom) \cup {""} : openEditModal(id)
    \/ \E m \in shown : closeModal(m)
    \/ \E data \in ActForms, t \in Clock : handleActSubmit(data, t)
    \/ \E c \in BOOLEAN : handleActDelete(c)
    \/ openSettings
    \/ \E f \in SettingsForms : handleSettingsSubmit(f[1], f[2])
    \/ \E n \in PromptAnswers, t \in Clock : addStage(n, t)
    \/ \E s \in ColumnIds(dom), n \in PromptAnswers : renameStage(s, n)
    \/ openIndividualExport
    \/ openMembersModal
    \/ \E id \in memberForm.list : editMember(id)
    \/ \E c \in BOOLEAN : handleMemberDelete(c)
    \/ handleSaveProject
    \/ \E c \in BOOLEAN : handleLoadProjectFile(c)
    \/ \E f \in PickableFiles : readerOnload(f)
    \/ \E c \in BOOLEAN : handleReset(c)
    \/ unload

Spec == Init /\ [][Next]_vars

----------------------------------------------------------------------------
(* Round trips: a card is dropped where it was rendered.  The act, the     *)
(* window and the pixel density are drawn from small sets, the snap is one *)
(* minute.                                                                 *)

RTWindows == { <<9, 22>>, <<0, 23>>, <<10, 12>> }

RTDensities == { 60, 100, 300 }

\* Minutes of the day at which the act starts: 00:00, 09:00, 09:01, 10:00,
\* 10:45, 11:59, 18:32, 21:59, 23:58
RTStarts == { 0, 540, 541, 600, 645, 719, 1112, 1319, 1438 }

RTDurations == { 1, 38, 120 }

\* "HH:MM" for a minute of the day
TimeOfDay(min) == Time(min \div 60, min % 60)

InitRT ==
    \E w \in RTWindows, d \in RTDensities, start \in RTStarts, dur \in RTDurations :
        LET act == [DefaultState.acts[1] EXCEPT
                       !.startTime = TimeOfDay(start),
                       !.endTime = TimeOfDay(start + dur)]
            cfg == [startHour |-> w[1], endHour |-> w[2],
                    pixelsPerHour |-> d, snapMinutes |-> 1]
            st  == [DefaultState EXCEPT
                       !.acts = <<act>>,
                       !.config = [startHour |-> w[1], endHour |-> w[2]]]
        IN  /\ start + dur < 1440
            /\ view = "edit"
            /\ pc = "ready"
            /\ isReadOnly = FALSE
            /\ bound = TRUE
            /\ state = st
            /\ CONFIG = cfg
            /\ dragState = [actId |-> act.id, offsetY |-> 0]
            /\ storage = <<Json(st)>>
            /\ dom = renderAll(st, cfg, NoDom).dom
            /\ shown = {}
            /\ actIdField = ""
            /\ pendingRead = 0
            /\ now = ClockStart
            /\ events = 0
            /\ last = [Ran("handleDragStart") EXCEPT !.id = act.id]
            /\ dragging = TRUE
            /\ memberForm = NoMemberForm
            /\ download = <<>>

\* The dragged card is released at the offset createActCard gave it
dropAtCardTop ==
    \E i \in 1..Len(dom.cards) :
        /\ dom.cards[i].id = dragState.actId
        /\ handleDrop(dom.cards[i].col, dom.cards[i].top)

NextRT == dropAtCardTop

SpecRT == InitRT /\ [][NextRT]_vars

----------------------------------------------------------------------------
(* formatTime applied to every minute count from 0 to MaxTotalMin            *)

\* The largest minute count formatTime is applied to (two days and more)
MaxTotalMin == 2999

\* An edit session whose init has completed with the state st, the
\* configuration cfg and the storage sto
ReadySession(st, cfg, sto) ==
    /\ view = "edit"
    /\ pc = "ready"
    /\ isReadOnly = FALSE
    /\ bound = TRUE
    /\ state = st
    /\ CONFIG = cfg
    /\ dragState = NoDrag
    /\ storage = sto
    /\ dom = renderAll(st, cfg, NoDom).dom
    /\ shown = {}
    /\ actIdField = ""
    /\ pendingRead = 0
    /\ now = ClockStart
    /\ events = 0
    /\ dragging = FALSE
    /\ memberForm = NoMemberForm
    /\ download = <<>>

\* formatTime is called with totalMin: last keeps the argument
InitFT ==
    \E totalMin \in 0..MaxTotalMin :
        /\ ReadySession(DefaultState, DefaultCONFIG, <<>>)
        /\ last = [Ran("formatTime") EXCEPT !.id = "called",
                                            !.newStart = totalMin]

\* formatTime returns: last keeps the string
applyFormatTime ==
    /\ last.op = "formatTime" /\ last.id = "called"
    /\ last' = [last EXCEPT !.id = "returned",
                            !.pre = formatTimeString(last.newStart)]
    /\ UNCHANGED <<view, pc, isReadOnly, bound, state, CONFIG, dragState,
                   storage, dom, shown, actIdField, pendingRead, now,
                   events, dragging, memberForm, download>>

NextFT == applyFormatTime

SpecFT == InitFT /\ [][NextFT]_vars

----------------------------------------------------------------------------
(* Project files: an edit session with one of several windows saves a      *)
(* project, changes its window, loads a file                               *)

PFWindows == { <<9, 22>>, <<22, 23>> }

InitPF ==
    \E w \in PFWindows :
        LET st  == [DefaultState EXCEPT
                       !.config = [startHour |-> w[1], endHour |-> w[2]]]
            cfg == [DefaultCONFIG EXCEPT !.startHour = w[1], !.endHour = w[2]]
        IN  /\ ReadySession(st, cfg, <<Json(st)>>)
            /\ last = Ran("init")

NextPF ==
    \/ handleSaveProject
    \/ openSettings
    \/ \E f \in SettingsForms : handleSettingsSubmit(f[1], f[2])
    \/ \E m \in shown : closeModal(m)
    \/ \E n \in PromptAnswers, t \in Clock : addStage(n, t)
    \/ \E c \in BOOLEAN : handleLoadProjectFile(c)
    \/ \E f \in PickableFiles : readerOnload(f)

SpecPF == InitPF /\ [][NextPF]_vars

----------------------------------------------------------------------------
(* What a drop did, read from the state after it *)

\* handleDrop found the dragged act and rewrote it
DropActed == last.op = "handleDrop" /\ last.pre # <<>>

ActBefore == last.pre[1]

ActAfter == state.acts[FindIndex(state.acts, last.id)]

WindowStartMin == Mul(CONFIG.startHour, 60)

WindowEndMin == Mul(CONFIG.endHour, 60)

\* The window and the act's duration are numbers
DropNumeric ==
    /\ WindowStartMin # NaN /\ WindowEndMin # NaN
    /\ DurationMin(ActBefore) # NaN

\* The latest start that keeps the act's end inside the window
LatestStart == WindowEndMin - DurationMin(ActBefore)

\* The data model's TimeWindow: startHour < endHour, both in [0, 24)
ValidWindow ==
    /\ CONFIG.startHour \in 0..23
    /\ CONFIG.endHour \in 0..23
    /\ CONFIG.startHour < CONFIG.endHour

ValidTime(t) == t.h \in 0..23 /\ t.m \in 0..59

\* The data model's Act: two times of the day, the end after the start
ValidAct(act) ==
    /\ ValidTime(act.startTime) /\ ValidTime(act.endTime)
    /\ TotalMin(act.endTime) > TotalMin(act.startTime)

\* A drop of an act and under a window that both satisfy the data model
ValidDrop == DropActed /\ ValidWindow /\ ValidAct(ActBefore)

----------------------------------------------------------------------------
(* Claims about handleDrop *)

\* C1: for every act, drop position and window (each as the data model
\* allows it), the act's duration in minutes (endTime minus startTime as
\* minutes of the day) after handleDrop equals its duration before the drop.
C1_DurationPreserved ==
    ValidDrop => DurationMin(ActAfter) = DurationMin(ActBefore)

\* C2, as stated: with snapMinutes = 5 the start written by handleDrop is always
\* divisible by 5, for every act duration, drop position and window (each as
\* the data model allows it).
C2_StartAlwaysOnGrid ==
    ValidDrop => Rem(TotalMin(ActAfter.startTime), 5) = 0

\* The drop was clamped at the upper bound, endHour*60 - duration
ClampedAtLatestStart ==
    /\ last.newStart > LatestStart
    /\ LatestStart > WindowStartMin

\* C2, amended: with snapMinutes = 5 and a numeric window, the start written by
\* handleDrop is divisible by 5 unless the drop was clamped at the upper bound
\* endHour*60 - duration and the duration is no multiple of 5.
C2_StartOnGridUnlessClampedLate ==
    (/\ DropActed /\ DropNumeric
     /\ ~(ClampedAtLatestStart /\ Rem(DurationMin(ActBefore), 5) # 0))
    => Rem(TotalMin(ActAfter.startTime), 5) = 0

\* C2 witness: a drop strictly inside the window, at 37 px, which is no grid
\* point, has been snapped
C2_Witness ==
    /\ DropActed /\ DropNumeric
    /\ last.newStart > WindowStartMin
    /\ last.newStart < LatestStart
    /\ TotalMin(ActAfter.startTime) = last.newStart
    /\ TotalMin(ActAfter.startTime) # TotalMin(ActBefore.startTime)

\* C3, as stated: a drop whose snapped start lies before the window start sets
\* the start to exactly startHour*60, and a drop whose snapped start lies after
\* endHour*60 - duration sets it to exactly endHour*60 - duration, for every
\* duration (of an act and under a window that the data model allows).
C3_ClampsToBothBounds ==
    ValidDrop =>
        /\ last.newStart < WindowStartMin
              => TotalMin(ActAfter.startTime) = WindowStartMin
        /\ last.newStart > LatestStart
              => TotalMin(ActAfter.startTime) = LatestStart

\* The minute the amended C3 expects for a clamped drop
ExpectedClamp ==
    IF last.newStart < WindowStartMin \/ LatestStart < WindowStartMin
    THEN WindowStartMin
    ELSE LatestStart

\* C3, amended: a drop whose snapped start lies before the window start sets
\* the start to startHour*60; a drop whose snapped start lies after
\* endHour*60 - duration sets it to endHour*60 - duration when the duration is
\* at most the window's length, and to startHour*60 otherwise.  The start reads
\* back as exactly that minute when the minute lies in [0, 1440).
C3_ClampsLowerBoundFirst ==
    (/\ DropActed /\ DropNumeric
     /\ (last.newStart < WindowStartMin \/ last.newStart > LatestStart))
    => /\ ActAfter.startTime = formatTime(ExpectedClamp)
       /\ (ExpectedClamp >= 0 /\ ExpectedClamp < 1440)
              => TotalMin(ActAfter.startTime) = ExpectedClamp

\* C3 witness: a drop below the column was clamped to endHour*60 - duration
C3_Witness ==
    /\ DropActed /\ DropNumeric
    /\ last.newStart > LatestStart
    /\ LatestStart > WindowStartMin
    /\ TotalMin(ActAfter.startTime) = LatestStart

\* C4, as stated: after every handleDrop the act lies wholly inside the window,
\* startHour*60 <= start and start + duration <= endHour*60, with the duration
\* it had (for an act and a window that the data model allows).
C4_AlwaysInsideWindow ==
    ValidDrop =>
        /\ WindowStartMin <= TotalMin(ActAfter.startTime)
        /\ TotalMin(ActAfter.endTime) <= WindowEndMin
        /\ DurationMin(ActAfter) = DurationMin(ActBefore)

\* C4, amended: when the act's duration is at most the window's length, the
\* start minute s that handleDrop chooses satisfies startHour*60 <= s and
\* s + duration <= endHour*60, and the act is written as formatTime(s) to
\* formatTime(s + duration); when s >= 0 and s + duration < 1440 these read
\* back as s and s + duration, so the act lies inside the window with its
\* duration unchanged.
C4_InsideWindowWhenItFits ==
    (/\ DropActed /\ DropNumeric
     /\ DurationMin(ActBefore) <= WindowEndMin - WindowStartMin)
    => \E start \in WindowStartMin..LatestStart :
          /\ ActAfter.startTime = formatTime(start)
          /\ ActAfter.endTime = formatTime(start + DurationMin(ActBefore))
          /\ (start >= 0 /\ start < 1440 /\ start + DurationMin(ActBefore) < 1440)
                => /\ TotalMin(ActAfter.startTime) = start
                   /\ TotalMin(ActAfter.endTime) <= WindowEndMin
                   /\ DurationMin(ActAfter) = DurationMin(ActBefore)

\* C4 witness: a drop below the column moved a fitting act up so that it ends
\* at the window's end
C4_Witness ==
    /\ DropActed /\ DropNumeric
    /\ DurationMin(ActBefore) > 0
    /\ DurationMin(ActBefore) <= WindowEndMin - WindowStartMin
    /\ last.newStart > LatestStart
    /\ TotalMin(ActAfter.endTime) = WindowEndMin

----------------------------------------------------------------------------
(* Claims about the round trip (specification SpecRT) *)

\* C5, as stated: for every valid time, window and pixel density, the time's
\* pixel offset (createActCard) converted back with a 1-minute snap
\* (handleDrop, formatTime) is the original time.
C5_RoundTripAnyTime ==
    DropActed => ActAfter.startTime = ActBefore.startTime

\* The act lies inside the window
InsideWindow(act) ==
    /\ WindowStartMin <= TotalMin(act.startTime)
    /\ TotalMin(act.endTime) <= WindowEndMin

\* C5, amended: for every valid time of an act that lies inside the window
\* (startHour*60 <= start and end <= endHour*60), and every pixel density, the
\* time's pixel offset converted back with a 1-minute snap is the original
\* time; the end time comes back too.
C5_RoundTripInsideWindow ==
    (DropActed /\ InsideWindow(ActBefore))
    => /\ ActAfter.startTime = ActBefore.startTime
       /\ ActAfter.endTime = ActBefore.endTime

\* C5 witness: an act inside the window that starts off the 5-minute grid and
\* not at the window's start has made the round trip
C5_Witness ==
    /\ DropActed /\ InsideWindow(ActBefore)
    /\ TotalMin(ActBefore.startTime) > WindowStartMin
    /\ Rem(TotalMin(ActBefore.startTime), 5) # 0
    /\ CONFIG.pixelsPerHour = 100

----------------------------------------------------------------------------
(* Claims about the data model's invariants *)

\* C6: in every reachable state every act's endTime is strictly after its
\* startTime.
C6_EndAfterStart ==
    (pc = "ready" /\ Has(state, "acts")) =>
        \A i \in 1..Len(state.acts) :
            /\ TotalMin(state.acts[i].startTime) # NaN
            /\ TotalMin(state.acts[i].endTime) > TotalMin(state.acts[i].startTime)

StageIds(st) == {st.stages[i].id : i \in 1..Len(st.stages)}

\* C7: in every reachable state every act's stageId is the id of a stage in
\* state.stages.
C7_StageIdExists ==
    (pc = "ready" /\ Has(state, "acts") /\ Has(state, "stages")) =>
        \A i \in 1..Len(state.acts) : state.acts[i].stageId \in StageIds(state)

\* C8: in every reachable state the window satisfies startHour < endHour with
\* both hours integers in [0, 24).
C8_WindowValid ==
    pc = "ready" =>
        /\ CONFIG.startHour \in 0..23
        /\ CONFIG.endHour \in 0..23
        /\ CONFIG.startHour < CONFIG.endHour

----------------------------------------------------------------------------
(* Claims about persistence *)

\* What a reload of the page in edit mode would put in memory
ReloadedState == loadStateLocal(DefaultState, storage)

ReloadedCONFIG == applyConfig(ReloadedState, DefaultCONFIG)

\* C9: in edit mode, after any sequence of operations, a reload (loadState,
\* applyConfig) yields the stages, acts and members (same fields, same order)
\* and the window that were in memory just before it.
C9_ReloadRestoresMemory ==
    (pc = "ready" /\ ~isReadOnly) =>
        /\ \A f \in {"stages", "acts", "members"} :
              Has(state, f) /\ ReloadedState[f] = state[f]
        /\ ReloadedCONFIG.startHour = CONFIG.startHour
        /\ ReloadedCONFIG.endHour = CONFIG.endHour

\* C10: in public view no event writes or removes the localStorage key, and
\* once init has completed the state (acts, stages, members) and the window
\* never change while the page stays open.
C10_PublicViewChangesNothing ==
    [][/\ view = "public" => storage' = storage
       /\ (isReadOnly /\ pc = "ready" /\ pc' = "ready")
             => (state' = state /\ CONFIG' = CONFIG)]_vars

\* C10 witness: the public view has been opened, and has loaded schedule.json,
\* over a localStorage key that an edit session wrote
C10_Witness ==
    /\ isReadOnly /\ pc = "ready"
    /\ storage # <<>>
    /\ state # DefaultState

----------------------------------------------------------------------------
(* Claims about confirmation and about the order of events *)

\* The handlers that ask for a confirmation: the two deletes, the project
\* load, the reset (the page a confirmed reset reloads starts in the
\* constructor)
AsksFirst(l) ==
    \/ l.op \in {"handleActDelete", "handleMemberDelete", "handleLoadProjectFile",
                 "handleReset"}
    \/ l.op = "constructor" /\ l.id = "reset"

\* C11: deleting an act, deleting a member, replacing the data from a project
\* file and resetting change the state or the storage (or start the file read)
\* only after the user accepted the confirmation dialog; when the user
\* declines, the state, CONFIG and localStorage are exactly as before.
C11_DeclineChangesNothing ==
    [][/\ last'.answer = "no"
            => /\ state' = state /\ CONFIG' = CONFIG /\ storage' = storage
               /\ pendingRead' = pendingRead
       /\ (/\ AsksFirst(last')
           /\ (state' # state \/ storage' # storage \/ pendingRead' > pendingRead))
            => last'.answer = "yes"]_vars

\* C11 witness: the user declined to delete the member whose Edit button they
\* had clicked
C11_Witness ==
    /\ last.op = "handleMemberDelete" /\ last.answer = "no"
    /\ last.id \in renderMembersList(state)

\* C12, as stated: no other event handler runs between the moment the user
\* confirms an operation and the moment its state update and persist are done:
\* the update of a project load follows its confirmation at once.
C12_NothingRunsBeforeTheUpdate ==
    [][last'.op = "readerOnload"
          => last.op = "handleLoadProjectFile" /\ last.answer = "yes"]_vars

\* C12, amended: the project load is the one operation whose update is
\* deferred.  A read is started only by a confirmed handleLoadProjectFile,
\* which itself changes neither state nor storage; each read fires its onload
\* once, in a later task, and other handlers may run in between.
C12_OnlyTheLoadIsDeferred ==
    [][/\ pendingRead' > pendingRead
            => /\ last'.op = "handleLoadProjectFile" /\ last'.answer = "yes"
               /\ pendingRead' = pendingRead + 1
               /\ state' = state /\ CONFIG' = CONFIG /\ storage' = storage
       /\ last'.op = "readerOnload"
            => pendingRead > 0 /\ pendingRead' = pendingRead - 1]_vars

\* C12 witness: a confirmed read is in flight and the act form has been
\* submitted meanwhile
C12_Witness ==
    /\ pendingRead > 0
    /\ last.op = "handleActSubmit" /\ ~last.threw

----------------------------------------------------------------------------
(* Claims about the pure conversions *)

\* C13: an act card's top offset equals (start minute of the day -
\* startHour*60) * pixelsPerHour / 60; with the window 9-22 at 300 pixels per
\* hour, 09:00 maps to 0 and 10:00 maps to 300.
C13_TopOffsetIsLinear ==
    \A i \in 1..Len(dom.cards) :
        LET card == dom.cards[i]
            offsetMin == TotalMin(card.startTime) - CONFIG.startHour * 60
        IN  /\ card.top * 60 = offsetMin * CONFIG.pixelsPerHour * PxDen
            /\ (CONFIG.startHour = 9 /\ CONFIG.endHour = 22
                   /\ CONFIG.pixelsPerHour = 300)
                  => /\ card.startTime = Time(9, 0) => card.top = 0
                     /\ card.startTime = Time(10, 0) => card.top = 300 * PxDen

\* C13 witness: under the window 9-22 at 300 pixels per hour a card of an act
\* that starts at 10:00 has been rendered 300 pixels down
C13_Witness ==
    /\ CONFIG.startHour = 9 /\ CONFIG.endHour = 22 /\ CONFIG.pixelsPerHour = 300
    /\ last.op = "handleDrop"
    /\ \E i \in 1..Len(dom.cards) :
          /\ dom.cards[i].startTime = Time(10, 0)
          /\ dom.cards[i].top = 300 * PxDen

\* minutesFromStart / snapMinutes of the last drop as the fraction
\* SnapNum / SnapDen
SnapNum == 60 * last.relY

SnapDen == PxDen * CONFIG.pixelsPerHour * CONFIG.snapMinutes

\* The drop position lies exactly halfway between two points of the snap grid
DropHalfway == (2 * SnapNum) % (2 * SnapDen) = SnapDen

\* snappedMinutes of the last drop
SnappedOfDrop == last.newStart - WindowStartMin

\* C14, as stated: a drop exactly halfway between two snap-grid points is
\* rounded half away from zero, below the window start (negative minutes from
\* the start) as well as inside the window.
C14_RoundsHalfAwayFromZero ==
    (DropActed /\ DropNumeric /\ DropHalfway)
    => SnappedOfDrop =
          (IF SnapNum >= 0 THEN (2 * SnapNum + SnapDen) \div (2 * SnapDen)
           ELSE 0 - ((SnapDen - 2 * SnapNum) \div (2 * SnapDen)))
          * CONFIG.snapMinutes

\* C14, amended: a drop exactly halfway between two snap-grid points is
\* rounded to the later of the two (half towards plus infinity): away from
\* zero inside the window, towards zero below the window start.
C14_RoundsHalfUp ==
    (DropActed /\ DropNumeric /\ DropHalfway)
    => /\ 2 * SnapDen * SnappedOfDrop
             = (2 * SnapNum + SnapDen) * CONFIG.snapMinutes
       /\ SnapNum < 0 => SnappedOfDrop * SnapDen > SnapNum * CONFIG.snapMinutes

\* C14 witness: a halfway drop above the column, 2.5 minutes before the window
\* start, has been snapped
C14_Witness ==
    /\ DropActed /\ DropNumeric /\ DropHalfway
    /\ SnapNum < 0
    /\ SnappedOfDrop = 0

\* The number a two-character decimal string stands for
TwoDigitValue(c1, c2) ==
    LET value(c) == CHOOSE d \in 0..9 : DecimalString(d) = <<c>>
    IN  10 * value(c1) + value(c2)

IsDigit(c) == \E d \in 0..9 : DecimalString(d) = <<c>>

\* C15: for every integer 0 <= totalMin < 1440, formatTime returns the
\* zero-padded two-digit "HH:MM" whose hour*60 + minute equals totalMin; for
\* totalMin >= 1440 it returns the same kind of string with the hour taken
\* modulo 24.
C15_FormatTimeIsHHMM ==
    (last.op = "formatTime" /\ last.id = "returned") =>
        LET str == last.pre
            totalMin == last.newStart
        IN  /\ Len(str) = 5 /\ str[3] = ":"
            /\ \A k \in {1, 2, 4, 5} : IsDigit(str[k])
            /\ TwoDigitValue(str[1], str[2]) = (totalMin \div 60) % 24
            /\ TwoDigitValue(str[4], str[5]) = totalMin % 60
            /\ totalMin < 1440
                  => TwoDigitValue(str[1], str[2]) * 60
                        + TwoDigitValue(str[4], str[5]) = totalMin

\* C15 witness: formatTime(1470), a minute count past midnight, has given
\* "00:30"
C15_Witness ==
    /\ last.op = "formatTime" /\ last.id = "returned" /\ last.newStart = 1470
    /\ last.pre = <<"0", "0", ":", "3", "0">>

----------------------------------------------------------------------------
(* Claims about rendering and about failed loads *)

\* The act lies, wholly or partly, before hour startHour or after hour endHour
OutsideHours(act, startHour, endHour) ==
    \/ TotalMin(act.startTime) < startHour * 60
    \/ TotalMin(act.endTime) > endHour * 60

\* A card of the act at the offset of the linear formula
HasLinearCard(d, act, cfg) ==
    \E j \in 1..Len(d.cards) :
        /\ d.cards[j].id = act.id
        /\ d.cards[j].col = act.stageId
        /\ d.cards[j].top * 60
              = (TotalMin(act.startTime) - cfg.startHour * 60)
                   * cfg.pixelsPerHour * PxDen

\* C16: rendering an act whose times lie before startHour:00 or after
\* endHour:00 raises no error; the card is created at the offset of the linear
\* formula (negative, or beyond the column), and the act is neither modified
\* nor removed.  Stated for the step in which a new window is applied and
\* everything is rendered again.
C16_RendersOutsideWindow ==
    [][(/\ last'.op = "handleSettingsSubmit" /\ last'.id = "applied"
        /\ Has(state, "config") /\ Has(state, "stages") /\ Has(state, "acts")
        /\ CONFIG'.startHour # NaN)
       => /\ ~last'.threw
          /\ state'.acts = state.acts
          /\ \A i \in 1..Len(state.acts) :
                (/\ state.acts[i].stageId \in StageIds(state)
                 /\ OutsideHours(state.acts[i], CONFIG'.startHour, CONFIG'.endHour))
                => HasLinearCard(dom', state.acts[i], CONFIG')]_vars

\* C16 witness: under the window 9-14 that the settings form applied, the act
\* 18:32-19:10 has its card below the column (9.5 hours down, the column is 5
\* hours high) and the act 13:00-15:00 one that ends below it
C16_Witness ==
    /\ last.op = "handleSettingsSubmit" /\ last.id = "applied" /\ ~last.threw
    /\ CONFIG.startHour = 9 /\ CONFIG.endHour = 14
    /\ \E j \in 1..Len(dom.cards) :
          /\ dom.cards[j].startTime = Time(18, 32)
          /\ dom.cards[j].top > 5 * CONFIG.pixelsPerHour * PxDen
    /\ \E i \in 1..Len(state.acts) : state.acts[i].startTime = Time(18, 32)

\* C17: whenever the load of a project file ends with the 'Invalid File'
\* alert, the state, CONFIG, localStorage and the rendered view are exactly as
\* they were before the load.
C17_InvalidFileChangesNothing ==
    [][(last'.op = "readerOnload" /\ last'.threw)
       => /\ state' = state /\ CONFIG' = CONFIG
          /\ storage' = storage /\ dom' = dom]_vars

\* A project file as Save Project writes it from a state that satisfies the
\* data model: the four fields, a valid window
WholeSnapshot(json) ==
    /\ \A f \in {"config", "stages", "acts", "members"} : Has(json, f)
    /\ json.config.startHour \in 0..23 /\ json.config.endHour \in 0..23
    /\ json.config.startHour < json.config.endHour

\* C18: after a project file written by handleSaveProject is loaded with
\* handleLoadProjectFile (confirmed), whatever valid window the session has,
\* the state equals the saved snapshot (stages, acts, members, startHour and
\* endHour) and CONFIG.startHour/endHour equal the file's config values.
C18_LoadRestoresSnapshot ==
    [][(/\ last'.op = "readerOnload"
        /\ download # <<>> /\ last'.pre = download
        /\ WholeSnapshot(download[1]) /\ ValidWindow)
       => /\ ~last'.threw
          /\ state' = download[1]
          /\ CONFIG'.startHour = download[1].config.startHour
          /\ CONFIG'.endHour = download[1].config.endHour]_vars

----------------------------------------------------------------------------
(* Claims about the settings form and about the drag state *)

\* C19: handleSettingsSubmit updates CONFIG.startHour/endHour only when the
\* submitted start hour is strictly less than the submitted end hour; every
\* other submission (empty or non-numeric fields included) leaves CONFIG, the
\* state and localStorage unchanged and the settings modal open.
C19_UpdatesOnlyWhenStartBeforeEnd ==
    [][last'.op = "handleSettingsSubmit"
       => \/ /\ CONFIG' = CONFIG /\ state' = state /\ storage' = storage
             /\ shown' = shown
          \/ /\ CONFIG'.startHour # NaN /\ CONFIG'.endHour # NaN
             /\ CONFIG'.startHour < CONFIG'.endHour]_vars

\* C20: dragState.actId is set only while a drag is in progress: once a drag
\* has ended (dropped on a column, cancelled or dropped elsewhere), a drop on a
\* stage column that no new dragstart on an act card precedes changes no act.
C20_NoDropWithoutDrag ==
    [][(last'.op = "handleDrop" /\ ~dragging)
       => state' = state /\ storage' = storage]_vars

----------------------------------------------------------------------------
(* Act form: an edit session loads a project that has no stage yet, opens   *)
(* the act form, submits it                                                 *)

\* A complete project file with a window and no stage, act or member
FileEmpty ==
    [ok |-> TRUE,
     json |-> [config  |-> [startHour |-> 10, endHour |-> 12],
               stages  |-> <<>>, acts |-> <<>>, members |-> <<>>]]

\* The act form filled in for an act whose name is still to be announced
FormTBA ==
    [name |-> "<TBA>", category |-> <<>>, color |-> "#3b82f6",
     startTime |-> Time(12, 0), endTime |-> Time(13, 0)]

InitAS ==
    /\ ReadySession(DefaultState, DefaultCONFIG, <<Json(DefaultState)>>)
    /\ last = Ran("init")

NextAS ==
    \/ \E c \in BOOLEAN : handleLoadProjectFile(c)
    \/ readerOnload(FileEmpty)
    \/ \E id \in CardIds(dom) \cup {""} : openEditModal(id)
    \/ \E data \in ActForms \cup {FormTBA}, t \in Clock : handleActSubmit(data, t)
    \/ \E m \in shown : closeModal(m)

SpecAS == InitAS /\ [][NextAS]_vars

\* C21: in every state of a whole project (window, stages, acts, members),
\* handleActSubmit with an empty act-id appends exactly one new act assigned to
\* the first stage and leaves the existing acts unchanged, and with an existing
\* act-id overwrites only that act's name, category, startTime, endTime and
\* color, keeping its id, its stageId and the number of acts; in both cases
\* the result is persisted and the edit modal closes.
C21_SubmitAppendsOrOverwrites ==
    [][(last'.op = "handleActSubmit" /\ WholeSnapshot(state) /\ ValidWindow)
       => /\ IF actIdField = ""
             THEN /\ Len(state'.acts) = Len(state.acts) + 1
                  /\ SubSeq(state'.acts, 1, Len(state.acts)) = state.acts
                  /\ state'.acts[Len(state'.acts)].stageId = state.stages[1].id
             ELSE LET i == FindIndex(state.acts, actIdField)
                  IN  /\ Len(state'.acts) = Len(state.acts)
                      /\ \A k \in 1..Len(state.acts) :
                            k # i => state'.acts[k] = state.acts[k]
                      /\ i # 0 => /\ state'.acts[i].id = state.acts[i].id
                                  /\ state'.acts[i].stageId = state.acts[i].stageId
          /\ storage' = <<Json(state')>>
          /\ "edit" \notin shown']_vars

----------------------------------------------------------------------------
(* Claims about ids *)

UniqueIds(seq) ==
    \A i, j \in 1..Len(seq) : seq[i].id = seq[j].id => i = j

\* C22: in every reachable state no two acts share an id, no two stages share
\* an id and no two members share an id, also when two of them were created
\* while the clock read the same millisecond.
C22_IdsAreUnique ==
    \A f \in {"acts", "stages", "members"} :
        Has(state, f) => UniqueIds(state[f])

----------------------------------------------------------------------------
(* Frame conditions *)

\* The fields of the state other than the acts
OtherFieldsKept ==
    /\ DOMAIN state' = DOMAIN state
    /\ \A f \in DOMAIN state \ {"acts"} : state'[f] = state[f]

\* C23: handleDrop changes only the stageId, startTime and endTime of the
\* dragged act (the act that has the id in dragState.actId): that act's id,
\* name, color and category, every other act, the stages, the members, the
\* time window (state.config and CONFIG) and the number of acts are unchanged.
C23_DropChangesOnlyTheDraggedAct ==
    [][last'.op = "handleDrop"
       => /\ CONFIG' = CONFIG
          /\ OtherFieldsKept
          /\ Has(state, "acts")
             => LET i == FindIndex(state.acts, dragState.actId)
                IN  /\ Len(state'.acts) = Len(state.acts)
                    /\ \A k \in 1..Len(state.acts) :
                          k # i => state'.acts[k] = state.acts[k]
                    /\ i # 0
                       => \A f \in {"id", "name", "color", "category"} :
                             state'.acts[i][f] = state.acts[i][f]]_vars

\* A drop has moved an act of a project with several acts to another stage and
\* another time
C23_Witness ==
    /\ DropActed /\ ~last.threw
    /\ Len(state.acts) > 1
    /\ ActAfter.stageId # ActBefore.stageId
    /\ ActAfter.startTime # ActBefore.startTime
    /\ ActAfter.endTime # ActBefore.endTime

\* C24: opening the individual export and Save Project (like the other export
\* handlers) leave state.acts, state.stages and state.members (contents and
\* order), CONFIG and localStorage unchanged.
C24_ExportsChangeNothing ==
    [][last'.op \in {"openIndividualExport", "handleSaveProject"}
       => /\ state' = state
          /\ CONFIG' = CONFIG
          /\ storage' = storage]_vars

----------------------------------------------------------------------------
(* Claims about loading, resetting and rendering *)

\* C25: after loadState, whether it read a stored blob or schedule.json in
\* public view, state.config has both startHour and endHour and state.stages,
\* state.acts and state.members all exist, and applyConfig and renderAll in
\* init complete.
C25_LoadStateCompletesTheState ==
    last.op = "init"
    => /\ Has(state, "config")
       /\ Has(state.config, "startHour") /\ Has(state.config, "endHour")
       /\ \A f \in {"stages", "acts", "members"} : Has(state, f)
       /\ ~last.threw

\* C26: after handleReset is confirmed, the reloaded application finds the
\* storage key removed and starts in the built-in default state (default
\* stages, acts, members and window 9-22), whatever the state before the reset.
C26_ResetGivesTheDefaultState ==
    [][/\ (last'.op = "constructor" /\ last'.id = "reset") => storage' = <<>>
       /\ (last.op = "constructor" /\ last.id = "reset" /\ last'.op = "init")
          => /\ state' = DefaultState
             /\ CONFIG'.startHour = 9 /\ CONFIG'.endHour = 22]_vars

\* The acts whose stageId names a stage of st
RECURSIVE ActsOnStages(_, _)
ActsOnStages(acts, ids) ==
    IF acts = <<>> THEN <<>>
    ELSE IF Head(acts).stageId \in ids
         THEN <<Head(acts)>> \o ActsOnStages(Tail(acts), ids)
         ELSE ActsOnStages(Tail(acts), ids)

\* The timeline d shows the project st: one column per stage, in order, and
\* one card per act of an existing stage, in that stage's column, with the
\* act's name and times
Shows(d, st) ==
    /\ Has(st, "stages") /\ Has(st, "acts")
    /\ Len(d.cols) = Len(st.stages)
    /\ \A i \in 1..Len(st.stages) : d.cols[i] = st.stages[i].id
    /\ LET acts == ActsOnStages(st.acts, {st.stages[i].id : i \in 1..Len(st.stages)})
       IN  /\ Len(d.cards) = Len(acts)
           /\ \A k \in 1..Len(acts) :
                 /\ d.cards[k].id = acts[k].id
                 /\ d.cards[k].col = acts[k].stageId
                 /\ d.cards[k].name = acts[k].name
                 /\ d.cards[k].startTime = acts[k].startTime
                 /\ d.cards[k].endTime = acts[k].endTime

\* C27: after every completed operation the rendered timeline matches the
\* state: init leaves it so, and every later operation that completes keeps it
\* so.
C27_TimelineMatchesState ==
    [][(/\ pc' = "ready" /\ ~last'.threw
        /\ (last'.op = "init" \/ Shows(dom, state)))
       => Shows(dom', state')]_vars

====
